---- MODULE Spec2Model ----
(***************************************************************************)
(* Model of the Gmail compose-and-send path of the unified API:            *)
(*   unified_api.py            gmail_send, _send_email_async, start-up     *)
(*   main_async_fixed.py       login, wait_for_element,                    *)
(*                             fill_field_with_retry, send_email,          *)
(*                             save_screenshot                             *)
(* and of the PDF search handler search_documents of unified_api.py.       *)
(*                                                                         *)
(* Specifications:                                                         *)
(*   Spec        one client of /gmail/send, the whole pipeline             *)
(*   SpecLive    Spec with the event loop's scheduling (fairness)          *)
(*   SpecConc    two clients, followed up to the compose dialog            *)
(*   SpecMerge   the recipient merge alone                                 *)
(*   SpecLocate  wait_for_element alone                                    *)
(*   SpecSearch  search_documents alone                                    *)
(*                                                                         *)
(* One request is one coroutine.  Every await of the source is one action  *)
(* of the model; the code between two awaits is executed inside the action *)
(* that ends at the second await.  The web page, the language model and    *)
(* the browser driver are the environment: each interaction with them      *)
(* either succeeds or raises, chosen nondeterministically.                 *)
(*                                                                         *)
(* _send_email_async imports login and send_email from                     *)
(* gmail_automation.main_async; they are modelled from main_async_fixed.py *)
(* which defines both.                                                     *)
(*                                                                         *)
(* Platform: the module-level name asyncio of main_async_fixed.py is bound *)
(* by its lines 2-3 (win32, the platform of the hard-coded Chrome profile  *)
(* path C:/Users/... ), so asyncio.sleep is modelled as a plain wait.      *)
(* Where the name is not bound (the module imported on another platform)   *)
(* lines 108, 125 and 198 raise NameError; that case is not in the model.  *)
(***************************************************************************)
EXTENDS Integers, Sequences, FiniteSets, TLC

(***************************************************************************)
(* Python values                                                           *)
(***************************************************************************)
None == [kind |-> "none"]
Absent == [kind |-> "absent"]
L(items) == [kind |-> "list", items |-> items]
S(s) == [kind |-> "str", s |-> s]

\* bool(v) for the values above
Truthy(v) ==
  CASE v.kind = "list" -> Len(v.items) > 0
    [] v.kind = "str" -> v.s # ""
    [] OTHER -> FALSE

Keys == {"to", "cc", "bcc", "subject", "body"}

\* d.get(k)
Get(d, k) == IF k \in DOMAIN d THEN d[k] ELSE None

\* d[k] = v
SetItem(d, k, v) == [x \in (DOMAIN d) \cup {k} |-> IF x = k THEN v ELSE d[x]]

\* a dict literal; a field given as Absent is a key the dict does not have
MkDict(to, cc, bcc, subject, body) ==
  LET all == [k \in Keys |->
                CASE k = "to" -> to
                  [] k = "cc" -> cc
                  [] k = "bcc" -> bcc
                  [] k = "subject" -> subject
                  [] OTHER -> body]
  IN  [k \in {x \in Keys : all[x].kind # "absent"} |-> all[k]]

\* a GmailSendRequest: to, cc, bcc are Optional[List[str]]
MkRequest(to, cc, bcc) == [to |-> to, cc |-> cc, bcc |-> bcc]

(***************************************************************************)
(* gmail_send, lines 254-260: overlay of the caller's recipients           *)
(***************************************************************************)
MergeRecipients_translator_wins(instructions, request) ==
  LET i1 == IF ~Truthy(Get(instructions, "to")) /\ Truthy(request.to)
            THEN SetItem(instructions, "to", request.to) ELSE instructions
      i2 == IF ~Truthy(Get(i1, "cc")) /\ Truthy(request.cc)
            THEN SetItem(i1, "cc", request.cc) ELSE i1
      i3 == IF ~Truthy(Get(i2, "bcc")) /\ Truthy(request.bcc)
            THEN SetItem(i2, "bcc", request.bcc) ELSE i2
  IN  i3

MergeRecipients(instructions, request) ==
  LET i1 == IF Truthy(request.to)
            THEN SetItem(instructions, "to", request.to) ELSE instructions
      i2 == IF Truthy(request.cc)
            THEN SetItem(i1, "cc", request.cc) ELSE i1
      i3 == IF Truthy(request.bcc)
            THEN SetItem(i2, "bcc", request.bcc) ELSE i2
  IN  i3


(***************************************************************************)
(* Exceptions and HTTP responses                                           *)
(***************************************************************************)
\* an exception object; msg is str(e) in pieces, where = <<attempt, stage>>
\* names the raising site inside send_email
Exc(type, msg, where) == [kind |-> "exc", type |-> type, msg |-> msg, where |-> where]

NoResponse == [status |-> 0, success |-> FALSE, detail |-> <<>>, email_preview |-> None]

\* raise HTTPException(status_code=status, detail=detail)
HTTPError(status, detail) ==
  [status |-> status, success |-> FALSE, detail |-> detail, email_preview |-> None]

\* gmail_send, lines 279-283
SuccessResponse(email_data) ==
  [status |-> 200, success |-> TRUE, detail |-> <<"Email sent successfully">>,
   email_preview |-> email_data]

\* gmail_send, line 244
ServiceUnavailable_both(agent, env) == agent = None /\ env = None

ServiceUnavailable(agent, env) == agent = None \/ env = None

\* gmail_send, lines 245-248
UnavailableResponse(init_error) ==
  HTTPError(503, <<"Gmail service not available. ",
                   IF Truthy(init_error) THEN init_error.s ELSE "Check configuration.">>)

\* gmail_send, line 264: the falsy test of email_data.get("to")
HasRecipient_unchecked(email_data) == TRUE

HasRecipient(email_data) == Truthy(Get(email_data, "to"))

\* gmail_send, lines 287-289: "Any earlier error (LLM parse, validation, etc.)"
EarlierErrorResponse_400(e) == HTTPError(400, <<"Gmail send failed: ">> \o e.msg)

EarlierErrorResponse(e) == HTTPError(500, <<"Gmail send failed: ">> \o e.msg)

\* gmail_send, lines 275-277
PipelineErrorResponse_unhandled(e) ==
  [status |-> -1, success |-> FALSE, detail |-> <<>>, email_preview |-> None]

PipelineErrorResponse(e) == HTTPError(500, <<"Gmail send failed: ">> \o e.msg)

NoRecipientError == Exc("ValueError", <<"No recipient found after parsing/merge.">>, <<>>)
TranslatorError == Exc("RuntimeError", <<"parse_task failed">>, <<>>)
StructureError == Exc("ValueError", <<"invalid email structure">>, <<>>)
AgentIsNoneError == Exc("AttributeError", <<"'NoneType' object has no attribute 'parse_task'">>, <<>>)

\* gmail_automation.main.parse_email_json: validates the structure of the
\* merged instructions; returns the draft, or raises
parse_email_json(instructions, valid) ==
  IF valid THEN [raised |-> FALSE, value |-> instructions, exc |-> None]
  ELSE [raised |-> TRUE, value |-> None, exc |-> StructureError]

(***************************************************************************)
(* gmail_send, lines 244-273: the handler up to its first await.           *)
(* translated is what gmail_agent.parse_task returns (a dict) or raises    *)
(* (an exception); valid is whether parse_email_json accepts the draft.    *)
(* The result says whether the pipeline is entered and with what.          *)
(***************************************************************************)
GmailSendPrefix(agent, env, init_error, request, translated, valid) ==
  IF ServiceUnavailable(agent, env)
  THEN [enter |-> FALSE, response |-> UnavailableResponse(init_error),
        translatorCalls |-> 0, instructions |-> None, email_data |-> None]
  ELSE IF agent = None
  THEN [enter |-> FALSE, response |-> EarlierErrorResponse(AgentIsNoneError),
        translatorCalls |-> 0, instructions |-> None, email_data |-> None]
  ELSE IF "kind" \in DOMAIN translated
  THEN [enter |-> FALSE, response |-> EarlierErrorResponse(translated),
        translatorCalls |-> 1, instructions |-> None, email_data |-> None]
  ELSE LET instructions == MergeRecipients(translated, request)
           parsed == parse_email_json(instructions, valid)
       IN  IF parsed.raised
           THEN [enter |-> FALSE, response |-> EarlierErrorResponse(parsed.exc),
                 translatorCalls |-> 1, instructions |-> instructions,
                 email_data |-> None]
           ELSE IF ~HasRecipient(parsed.value)
           THEN [enter |-> FALSE, response |-> EarlierErrorResponse(NoRecipientError),
                 translatorCalls |-> 1, instructions |-> instructions,
                 email_data |-> parsed.value]
           ELSE [enter |-> TRUE, response |-> NoResponse,
                 translatorCalls |-> 1, instructions |-> instructions,
                 email_data |-> parsed.value]

(***************************************************************************)
(* unified_api.py, lines 141-153: start-up of the Gmail agent              *)
(***************************************************************************)
StartupOutcomes == {"env_fails", "key_missing", "agent_fails", "ok"}

Startup(outcome) ==
  CASE outcome = "env_fails" ->
         [gmail_env |-> None, gmail_agent |-> None,
          gmail_init_error |-> S("load_gmail_env failed")]
    [] outcome = "key_missing" ->
         [gmail_env |-> [kind |-> "env", key |-> FALSE], gmail_agent |-> None,
          gmail_init_error |-> S("GROQ_API_KEY missing in environment.")]
    [] outcome = "agent_fails" ->
         [gmail_env |-> [kind |-> "env", key |-> TRUE], gmail_agent |-> None,
          gmail_init_error |-> S("GmailAgent construction failed")]
    [] OTHER ->
         [gmail_env |-> [kind |-> "env", key |-> TRUE],
          gmail_agent |-> [kind |-> "agent"], gmail_init_error |-> None]


(***************************************************************************)
(* main_async_fixed.py, lines 50-74: wait_for_element                      *)
(* selector is a str or a list of str; visible is the set of selectors     *)
(* that resolve to a visible element while they are waited on; dialog is   *)
(* what the fallback scan finds: no dialog, a dialog without a text-       *)
(* editable element, or a dialog with one.                                 *)
(***************************************************************************)
DialogStates == {"none", "empty", "textbox"}

DialogTextboxes == "[contenteditable='true'], input[type='text'], textarea"

Range(seq) == {seq[i] : i \in 1..Len(seq)}

\* line 54
Selectors(selector) == IF selector.kind = "str" THEN <<selector.s>> ELSE selector.items

\* lines 56-62: index of the first candidate that becomes visible, 0 if none
FirstVisible_last(selectors, visible) ==
  IF \E i \in 1..Len(selectors) : selectors[i] \in visible
  THEN CHOOSE i \in 1..Len(selectors) :
         /\ selectors[i] \in visible
         /\ \A j \in (i + 1)..Len(selectors) : selectors[j] \notin visible
  ELSE 0

FirstVisible(selectors, visible) ==
  IF \E i \in 1..Len(selectors) : selectors[i] \in visible
  THEN CHOOSE i \in 1..Len(selectors) :
         /\ selectors[i] \in visible
         /\ \A j \in 1..(i - 1) : selectors[j] \notin visible
  ELSE 0

\* lines 50-74.  visible: the candidates that become visible within their
\* budget; dialog: what the fallback scan of lines 65-69 finds.  tried is the
\* number of candidates waited on, scanned whether the fallback scan ran.
WaitForElement_no_fallback(selector, timeout, description, visible, dialog) ==
  LET selectors == Selectors(selector)
      budget == timeout \div Len(selectors)
      i == FirstVisible(selectors, visible)
  IN  IF i > 0
      THEN [found |-> TRUE, element |-> [via |-> "selector", sel |-> selectors[i]],
            tried |-> i, budget |-> budget, scanned |-> FALSE, exc |-> None]
      ELSE [found |-> FALSE, element |-> None,
            tried |-> Len(selectors), budget |-> budget, scanned |-> FALSE,
            exc |-> Exc("TimeoutError", <<"Could not find ", description>>, <<>>)]

WaitForElement(selector, timeout, description, visible, dialog) ==
  LET selectors == Selectors(selector)
      budget == timeout \div Len(selectors)
      i == FirstVisible(selectors, visible)
  IN  IF i > 0
      THEN [found |-> TRUE, element |-> [via |-> "selector", sel |-> selectors[i]],
            tried |-> i, budget |-> budget, scanned |-> FALSE, exc |-> None]
      ELSE IF dialog = "textbox"
      THEN [found |-> TRUE, element |-> [via |-> "dialog", sel |-> DialogTextboxes],
            tried |-> Len(selectors), budget |-> budget, scanned |-> TRUE, exc |-> None]
      ELSE [found |-> FALSE, element |-> None,
            tried |-> Len(selectors), budget |-> budget, scanned |-> TRUE,
            exc |-> Exc("TimeoutError", <<"Could not find ", description>>, <<>>)]

(***************************************************************************)
(* Selector sets and timeouts of send_email and fill_field_with_retry      *)
(***************************************************************************)
compose_timeout == 10000
dialog_timeout == 10000
field_timeout == 5000

ComposeSelector == S("div[gh='cm']")
DialogSelector == S("div[role='dialog']")

\* send_email, lines 130-134, 143-146, 155-158
RecipientSelectors(kind) ==
  CASE kind = "to" -> L(<<"input[aria-label='To']", "input[name='to']",
                          "div[aria-label='To'] input">>)
    [] kind = "cc" -> L(<<"input[aria-label='Cc']", "input[name='cc']">>)
    [] OTHER -> L(<<"input[aria-label='Bcc']", "input[name='bcc']">>)

RecipientDescription(kind) ==
  CASE kind = "to" -> "To field" [] kind = "cc" -> "Cc field" [] OTHER -> "Bcc field"

\* fill_field_with_retry, lines 80-97
FillSelectors(field_type) ==
  CASE field_type = "to" -> L(<<"input[aria-label='To']", "input[name='to']",
                                "div[aria-label='To'] input", "input[email]">>)
    [] field_type = "subject" -> L(<<"input[name='subjectbox']",
                                     "input[aria-label='Subject']">>)
    [] OTHER -> L(<<"div[aria-label='Message Body']", "div[contenteditable='true']",
                    "div[role='textbox']">>)

FillDescription(field_type) ==
  CASE field_type = "to" -> "To field"
    [] field_type = "subject" -> "Subject field"
    [] OTHER -> "Message body"

\* send_email, lines 167-171
BodySelectors ==
  L(<<"div[aria-label='Message Body']", "div[contenteditable='true']",
      "div[role='textbox']">>)

\* send_email, lines 176-181
SendSelectors ==
  L(<<"div[aria-label=Send (Ctrl-Enter)]", "div[data-tooltip=Send]",
      "button[aria-label=Send]", "div[role=button]:has-text(Send)">>)

(***************************************************************************)
(* send_email: the retry loop and the recipient loops                      *)
(***************************************************************************)
\* send_email, line 116
max_retries == 3

\* fill_field_with_retry, line 76: the default of max_retries
fill_max_retries == 3

\* send_email, line 190: attempt == max_retries - 1
IsLastAttempt_early(attempt) == attempt = max_retries - 2

IsLastAttempt_late(attempt) == attempt = max_retries

IsLastAttempt(attempt) == attempt = max_retries - 1

\* fill_field_with_retry, line 105
IsLastFillAttempt(attempt) == attempt = fill_max_retries - 1

\* send_email, lines 189-198: where the except clause goes
ExceptClause_snapshot_every_attempt(attempt) == "screenshot"

ExceptClause(attempt) == IF IsLastAttempt(attempt) THEN "screenshot" ELSE "backoff"

\* send_email, lines 128, 141, 153: x if isinstance(x, list) else [x]
AsList(v) == IF v.kind = "list" THEN v.items ELSE <<v.s>>

\* the order of the three recipient loops, lines 127-161
RecipientKinds_cc_first == <<"cc", "to", "bcc">>

RecipientKinds == <<"to", "cc", "bcc">>

\* line 129 loops over email_data["to"] unconditionally; lines 140 and 152
\* enter the cc and bcc loops only for a truthy email_data.get(kind)
LoopEntered(email_data, kind) ==
  IF kind = "to" THEN TRUE ELSE Truthy(Get(email_data, kind))

Emails(email_data, kind) ==
  IF LoopEntered(email_data, kind) THEN AsList(email_data[kind]) ELSE <<>>

\* the first loop, from the k-th on, that has an address to fill; 4 when
\* the recipient loops are over
RECURSIVE NextLoop(_, _)
NextLoop(email_data, k) ==
  IF k > Len(RecipientKinds) THEN k
  ELSE IF Len(Emails(email_data, RecipientKinds[k])) > 0 THEN k
  ELSE NextLoop(email_data, k + 1)

\* send_email, lines 185-187: the wait for the confirmation marker
ConfirmResult_never(marker_seen) == "raise"

ConfirmResult_lenient(marker_seen) == "return_true"

ConfirmResult(marker_seen) == IF marker_seen THEN "return_true" ELSE "raise"

\* _send_email_async, line 168: what leaving the async with block does to
\* the browser context the Playwright driver launched
ContextManagerExit_leaves_browser(browser) == browser

ContextManagerExit(browser) == IF browser = "open" THEN "closed" ELSE browser


(***************************************************************************)
(* Bounds and inputs                                                       *)
(***************************************************************************)
\* requests served before the model stops accepting new ones
MaxRequests == 2

\* coroutines the event loop can hold
Slots == {1, 2}

Subject == S("Extension request")
Body == S("Dear professor, ...")

\* the requests of the model: no recipients given, an empty to list, only
\* bcc given, and all three lists given
Requests ==
  {MkRequest(None, None, L(<<>>)),
   MkRequest(L(<<>>), L(<<>>), L(<<>>)),
   MkRequest(None, None, L(<<"f@x">>)),
   MkRequest(L(<<"b@x">>), L(<<"e1@x", "e2@x">>), L(<<"f@x">>))}

TranslatedTo == {Absent, L(<<>>), L(<<"a1@x", "a2@x">>), S("a@x")}
TranslatedCc == {L(<<>>)}
TranslatedBcc == {Absent}
Translations ==
  {MkDict(t, c, b, Subject, Body) :
     t \in TranslatedTo, c \in TranslatedCc, b \in TranslatedBcc}
  \cup {TranslatorError}

\* inputs of the recipient merge taken alone: every field of the request
\* is None or a list of up to MaxLen caller addresses, every recipient field
\* of the translation is missing or a list of up to MaxLen addresses
MaxLen == 2

RECURSIVE Repeat(_, _)
Repeat(x, n) == IF n = 0 THEN <<>> ELSE Append(Repeat(x, n - 1), x)

CallerLists == {None} \cup {L(Repeat("b@x", n)) : n \in 0..MaxLen}
TranslatedLists == {Absent} \cup {L(Repeat("a@x", n)) : n \in 0..MaxLen}

MergeInputs ==
  {[request |-> MkRequest(rt, rc, rb),
    instructions |-> MkDict(tt, tc, tb, Subject, Body)] :
     rt \in CallerLists, rc \in CallerLists, rb \in CallerLists,
     tt \in TranslatedLists, tc \in TranslatedLists, tb \in TranslatedLists}

(***************************************************************************)
(* State                                                                   *)
(***************************************************************************)
VARIABLES
  gmail_agent,       \* unified_api.py module globals, lines 141-143
  gmail_env,
  gmail_init_error,
  clients,           \* the slots on which requests arrive
  served,            \* requests accepted so far
  pc,                \* per slot: the await the coroutine is suspended at
  h,                 \* per slot: frame of gmail_send
  p,                 \* per slot: frame of _send_email_async
  s,                 \* per slot: frame of send_email / fill_field_with_retry
  m_in,              \* input of the recipient merge taken alone
  m_out              \* its result

vars == <<gmail_agent, gmail_env, gmail_init_error, clients, served, pc, h, p, s,
          m_in, m_out>>

globals == <<gmail_agent, gmail_env, gmail_init_error, clients>>

H0 == [instructions |-> None, email_data |-> None, response |-> NoResponse,
       translatorCalls |-> 0, pipelineCalls |-> 0]

P0 == [pw |-> "none", browser |-> "none", closeCalled |-> FALSE, page |-> FALSE,
       pending |-> None, logins |-> 0]

S0 == [attempt |-> 0, started |-> 0, fails |-> 0, kind |-> 0, idx |-> 0,
       field |-> None, ftry |-> 0, fstarted |-> 0, ffails |-> 0, fresult |-> "none",
       trace |-> <<>>, sendClicks |-> 0, shots |-> 0, shotAttempt |-> -1,
       shotPath |-> None, confirmed |-> FALSE, result |-> "none", e |-> None]

InitProgram(outcome) ==
  /\ gmail_agent = Startup(outcome).gmail_agent
  /\ gmail_env = Startup(outcome).gmail_env
  /\ gmail_init_error = Startup(outcome).gmail_init_error
  /\ served = 0
  /\ pc = [r \in Slots |-> "idle"]
  /\ h = [r \in Slots |-> H0]
  /\ p = [r \in Slots |-> P0]
  /\ s = [r \in Slots |-> S0]

Init ==
  /\ \E outcome \in StartupOutcomes : InitProgram(outcome)
  /\ clients = {1}
  /\ m_in = None
  /\ m_out = None

(***************************************************************************)
(* gmail_send                                                              *)
(***************************************************************************)
\* slot r is between the call of _send_email_async and its return or raise
InPipeline(r) == pc[r] \notin {"idle", "done"}

\* line 273: gmail_send awaits _send_email_async directly; nothing is
\* acquired or queued on before it, so the call is made whether or not
\* another request is in the pipeline
MayEnterPipeline_locked(busy) == ~busy

MayEnterPipeline(busy) == TRUE

\* lines 237-273: a request arrives and runs to its first await
GmailSend(r) ==
  /\ r \in clients
  /\ pc[r] \in {"idle", "done"}
  /\ served < MaxRequests
  /\ \E request \in Requests, translated \in Translations, valid \in BOOLEAN :
       LET out == GmailSendPrefix(gmail_agent, gmail_env, gmail_init_error,
                                  request, translated, valid)
       IN  /\ out.enter => MayEnterPipeline(\E q \in Slots \ {r} : InPipeline(q))
           /\ h' = [h EXCEPT ![r] =
                      [instructions |-> out.instructions,
                       email_data |-> out.email_data,
                       response |-> out.response,
                       translatorCalls |-> out.translatorCalls,
                       pipelineCalls |-> IF out.enter THEN 1 ELSE 0]]
           /\ pc' = [pc EXCEPT ![r] = IF out.enter THEN "pw_start" ELSE "done"]
  /\ p' = [p EXCEPT ![r] = P0]
  /\ s' = [s EXCEPT ![r] = S0]
  /\ served' = served + 1
  /\ UNCHANGED <<globals, m_in, m_out>>

(***************************************************************************)
(* _send_email_async                                                       *)
(***************************************************************************)
\* an exception raised inside the async with block: leave the block
RaiseInPipeline(r, exc) ==
  /\ p' = [p EXCEPT ![r].pending = exc]
  /\ pc' = [pc EXCEPT ![r] = "aexit"]

\* line 168: async_playwright().__aenter__ starts the driver
PlaywrightStart(r) ==
  /\ pc[r] = "pw_start"
  /\ \E ok \in BOOLEAN :
       IF ok
       THEN /\ p' = [p EXCEPT ![r].pw = "running"]
            /\ pc' = [pc EXCEPT ![r] = "launch"]
            /\ h' = h
       ELSE \* lines 186-188, then gmail_send lines 275-277
            /\ p' = [p EXCEPT ![r].pending = Exc("Error", <<"driver did not start">>, <<>>)]
            /\ pc' = [pc EXCEPT ![r] = "done"]
            /\ h' = [h EXCEPT ![r].response =
                       PipelineErrorResponse(Exc("Error", <<"driver did not start">>, <<>>))]
  /\ UNCHANGED <<globals, served, s, m_in, m_out>>

\* lines 169-174: launch_persistent_context
LaunchContext(r) ==
  /\ pc[r] = "launch"
  /\ \E ok \in BOOLEAN :
       IF ok
       THEN /\ p' = [p EXCEPT ![r].browser = "open"]
            /\ pc' = [pc EXCEPT ![r] = "new_page"]
       ELSE RaiseInPipeline(r, Exc("Error", <<"launch failed">>, <<>>))
  /\ UNCHANGED <<globals, served, h, s, m_in, m_out>>

\* line 176
NewPage(r) ==
  /\ pc[r] = "new_page"
  /\ \E ok \in BOOLEAN :
       IF ok
       THEN /\ p' = [p EXCEPT ![r].page = TRUE, ![r].logins = @ + 1]
            /\ pc' = [pc EXCEPT ![r] = "goto"]
       ELSE RaiseInPipeline(r, Exc("Error", <<"new_page failed">>, <<>>))
  /\ UNCHANGED <<globals, served, h, s, m_in, m_out>>

\* login, line 32
LoginGoto(r) ==
  /\ pc[r] = "goto"
  /\ \E ok \in BOOLEAN :
       IF ok
       THEN /\ pc' = [pc EXCEPT ![r] = "wait_cm"]
            /\ p' = p
       ELSE RaiseInPipeline(r, Exc("Error", <<"goto failed">>, <<>>))
  /\ UNCHANGED <<globals, served, h, s, m_in, m_out>>

\* login, line 33
LoginWaitCompose(r) ==
  /\ pc[r] = "wait_cm"
  /\ \E ok \in BOOLEAN :
       IF ok
       THEN /\ pc' = [pc EXCEPT ![r] = "wait_main"]
            /\ p' = p
       ELSE RaiseInPipeline(r, Exc("TimeoutError", <<"div[gh='cm'] not visible">>, <<>>))
  /\ UNCHANGED <<globals, served, h, s, m_in, m_out>>

\* login, line 34; on success send_email starts its first attempt (lines 114-120)
LoginWaitMain(r) ==
  /\ pc[r] = "wait_main"
  /\ \E ok \in BOOLEAN :
       IF ok
       THEN /\ pc' = [pc EXCEPT ![r] = "compose_locate"]
            /\ s' = [s EXCEPT ![r].started = 1]
            /\ p' = p
       ELSE /\ RaiseInPipeline(r, Exc("TimeoutError", <<"div[role='main'] not visible">>, <<>>))
            /\ s' = s
  /\ UNCHANGED <<globals, served, h, m_in, m_out>>

\* line 184: browser.close()
BrowserClose(r) ==
  /\ pc[r] = "close"
  /\ \E ok \in BOOLEAN :
       IF ok
       THEN /\ p' = [p EXCEPT ![r].browser = "closed", ![r].closeCalled = TRUE]
            /\ pc' = [pc EXCEPT ![r] = "aexit"]
       ELSE RaiseInPipeline(r, Exc("Error", <<"close failed">>, <<>>))
  /\ UNCHANGED <<globals, served, h, s, m_in, m_out>>

\* line 168: __aexit__ stops the driver; then _send_email_async returns or
\* re-raises (lines 186-188) and gmail_send answers (lines 274-283)
ContextExit(r) ==
  /\ pc[r] = "aexit"
  /\ p' = [p EXCEPT ![r].pw = "stopped",
                    ![r].browser = ContextManagerExit(p[r].browser)]
  /\ h' = [h EXCEPT ![r].response =
             IF p[r].pending = None THEN SuccessResponse(h[r].email_data)
             ELSE PipelineErrorResponse(p[r].pending)]
  /\ pc' = [pc EXCEPT ![r] = "done"]
  /\ UNCHANGED <<globals, served, s, m_in, m_out>>


(***************************************************************************)
(* send_email, lines 112-198                                               *)
(***************************************************************************)
At(r, stage, exc) == [exc EXCEPT !.where = <<s[r].attempt, stage>>]

\* an exception inside the try block of attempt s[r].attempt: the except
\* clause of lines 189-198 up to its await
AttemptFails(r, exc) ==
  /\ s' = [s EXCEPT ![r].e = exc, ![r].fails = @ + 1,
                    ![r].field = None]
  /\ pc' = [pc EXCEPT ![r] = ExceptClause(s[r].attempt)]

\* a wait_for_element call of send_email, and on success the step to next
Locate(r, selector, timeout, description, next) ==
  \E visible \in SUBSET Range(Selectors(selector)), dialog \in DialogStates :
    LET w == WaitForElement(selector, timeout, description, visible, dialog)
    IN  IF w.found
        THEN /\ s' = [s EXCEPT ![r].field = w.element,
                               ![r].trace = Append(@, <<"locate", description>>)]
             /\ pc' = [pc EXCEPT ![r] = next]
        ELSE AttemptFails(r, At(r, description, w.exc))

\* one awaited page interaction of send_email: it succeeds or raises.  The
\* trace keeps the lookups, the values typed, the keys pressed and the
\* buttons clicked; a click that only focuses a field is not kept.
Recorded(event) == ~(event[1] = "clear" \/ (event[1] = "click" /\ event[3] = "field"))

Interact(r, event, next, keepField) ==
  \E ok \in BOOLEAN :
    IF ok
    THEN /\ s' = [s EXCEPT ![r].trace = IF Recorded(event) THEN Append(@, event) ELSE @,
                           ![r].field = IF keepField THEN @ ELSE None]
         /\ pc' = [pc EXCEPT ![r] = next]
    ELSE AttemptFails(r, At(r, event, Exc("Error", <<"page error in ", event[1]>>, <<>>)))

\* where send_email goes once the k-th recipient loop is positioned
LoopStart(email_data, k) ==
  LET n == NextLoop(email_data, k)
  IN  IF n <= Len(RecipientKinds)
      THEN [pc |-> "rcp_locate", kind |-> n, idx |-> 1]
      ELSE [pc |-> "subj_locate", kind |-> 0, idx |-> 0]

\* line 120
ComposeLocate(r) ==
  /\ pc[r] = "compose_locate"
  /\ Locate(r, ComposeSelector, compose_timeout, "compose button", "compose_click")
  /\ UNCHANGED <<globals, served, h, p, m_in, m_out>>

\* line 121
ComposeClick(r) ==
  /\ pc[r] = "compose_click"
  /\ Interact(r, <<"click", "compose button", "button">>, "dialog_wait", FALSE)
  /\ UNCHANGED <<globals, served, h, p, m_in, m_out>>

\* line 124; the element found is not used
DialogWait(r) ==
  /\ pc[r] = "dialog_wait"
  /\ \E visible \in SUBSET Range(Selectors(DialogSelector)), dialog \in DialogStates :
       LET w == WaitForElement(DialogSelector, dialog_timeout, "compose dialog",
                               visible, dialog)
       IN  IF w.found
           THEN /\ s' = [s EXCEPT ![r].trace = Append(@, <<"locate", "compose dialog">>)]
                /\ pc' = [pc EXCEPT ![r] = "pause"]
           ELSE AttemptFails(r, At(r, "compose dialog", w.exc))
  /\ UNCHANGED <<globals, served, h, p, m_in, m_out>>

\* line 125: asyncio.sleep(1); then the first recipient loop that has an
\* address, or fill_field_with_retry for the subject
Pause(r) ==
  /\ pc[r] = "pause"
  /\ LET go == LoopStart(h[r].email_data, 1)
     IN  /\ pc' = [pc EXCEPT ![r] = go.pc]
         /\ s' = [s EXCEPT ![r].kind = go.kind, ![r].idx = go.idx,
                           ![r].ftry = 0,
                           ![r].fstarted = IF go.pc = "subj_locate" THEN 1 ELSE 0,
                           ![r].ffails = 0, ![r].fresult = "none"]
  /\ UNCHANGED <<globals, served, h, p, m_in, m_out>>

Kind(r) == RecipientKinds[s[r].kind]

Address(r) == Emails(h[r].email_data, Kind(r))[s[r].idx]

\* lines 130-134, 143-146, 155-158
RecipientLocate(r) ==
  /\ pc[r] = "rcp_locate"
  /\ Locate(r, RecipientSelectors(Kind(r)), field_timeout,
            RecipientDescription(Kind(r)), "rcp_click")
  /\ UNCHANGED <<globals, served, h, p, m_in, m_out>>

\* lines 135, 147, 159
RecipientClick(r) ==
  /\ pc[r] = "rcp_click"
  /\ Interact(r, <<"click", RecipientDescription(Kind(r)), "field">>, "rcp_fill", TRUE)
  /\ UNCHANGED <<globals, served, h, p, m_in, m_out>>

\* lines 136, 148, 160
RecipientFill(r) ==
  /\ pc[r] = "rcp_fill"
  /\ Interact(r, <<"fill", RecipientDescription(Kind(r)), Address(r)>>, "rcp_enter", FALSE)
  /\ UNCHANGED <<globals, served, h, p, m_in, m_out>>

\* lines 137, 149, 161: page.keyboard.press("Enter"); then the next address,
\* the next loop, or the subject
RecipientEnter(r) ==
  /\ pc[r] = "rcp_enter"
  /\ \E ok \in BOOLEAN :
       IF ok
       THEN LET more == s[r].idx < Len(Emails(h[r].email_data, Kind(r)))
                go == IF more
                      THEN [pc |-> "rcp_locate", kind |-> s[r].kind, idx |-> s[r].idx + 1]
                      ELSE LoopStart(h[r].email_data, s[r].kind + 1)
            IN  /\ s' = [s EXCEPT ![r].trace = Append(@, <<"press", "Enter">>),
                                  ![r].kind = go.kind, ![r].idx = go.idx,
                                  ![r].fstarted = IF go.pc = "subj_locate" THEN 1 ELSE 0]
                /\ pc' = [pc EXCEPT ![r] = go.pc]
       ELSE AttemptFails(r, At(r, "Enter", Exc("Error", <<"page error in press">>, <<>>)))
  /\ UNCHANGED <<globals, served, h, p, m_in, m_out>>

(***************************************************************************)
(* fill_field_with_retry(page, "subject", ...), lines 76-110               *)
(***************************************************************************)
\* an exception inside the try block of lines 79-102: lines 104-108
FillFails(r, exc) ==
  IF IsLastFillAttempt(s[r].ftry)
  THEN \* raise e: the exception leaves fill_field_with_retry, into send_email
       /\ s' = [s EXCEPT ![r].e = exc, ![r].fails = @ + 1,
                         ![r].field = None, ![r].ffails = @ + 1,
                         ![r].fresult = "raised"]
       /\ pc' = [pc EXCEPT ![r] = ExceptClause(s[r].attempt)]
  ELSE /\ s' = [s EXCEPT ![r].ffails = @ + 1, ![r].field = None]
       /\ pc' = [pc EXCEPT ![r] = "subj_sleep"]

FillInteract(r, event, next, returns) ==
  \E ok \in BOOLEAN :
    IF ok
    THEN /\ s' = [s EXCEPT ![r].trace = IF Recorded(event) THEN Append(@, event) ELSE @,
                           ![r].field = IF returns THEN None ELSE @,
                           ![r].fresult = IF returns THEN "true" ELSE @]
         /\ pc' = [pc EXCEPT ![r] = next]
    ELSE FillFails(r, At(r, event, Exc("Error", <<"page error in ", event[1]>>, <<>>)))

\* line 90
SubjectLocate(r) ==
  /\ pc[r] = "subj_locate"
  /\ \E visible \in SUBSET Range(Selectors(FillSelectors("subject"))),
        dialog \in DialogStates :
       LET w == WaitForElement(FillSelectors("subject"), field_timeout,
                               FillDescription("subject"), visible, dialog)
       IN  IF w.found
           THEN /\ s' = [s EXCEPT ![r].field = w.element,
                                  ![r].trace = Append(@, <<"locate", "Subject field">>)]
                /\ pc' = [pc EXCEPT ![r] = "subj_click"]
           ELSE FillFails(r, At(r, "Subject field", w.exc))
  /\ UNCHANGED <<globals, served, h, p, m_in, m_out>>

\* line 99
SubjectClick(r) ==
  /\ pc[r] = "subj_click"
  /\ FillInteract(r, <<"click", "Subject field", "field">>, "subj_clear", FALSE)
  /\ UNCHANGED <<globals, served, h, p, m_in, m_out>>

\* line 100
SubjectClear(r) ==
  /\ pc[r] = "subj_clear"
  /\ FillInteract(r, <<"clear", "Subject field", "field">>, "subj_fill", FALSE)
  /\ UNCHANGED <<globals, served, h, p, m_in, m_out>>

\* lines 164-167: after fill_field_with_retry has returned send_email goes on
\* to the message body
AfterSubject_skips_body == "send_locate"

AfterSubject == "body_locate"

\* lines 101-102: fill, return True
SubjectFill(r) ==
  /\ pc[r] = "subj_fill"
  /\ FillInteract(r, <<"fill", "Subject field", h[r].email_data["subject"].s>>,
                  AfterSubject, TRUE)
  /\ UNCHANGED <<globals, served, h, p, m_in, m_out>>

\* line 108: asyncio.sleep(1), then the next iteration of line 78
SubjectSleep(r) ==
  /\ pc[r] = "subj_sleep"
  /\ s' = [s EXCEPT ![r].ftry = @ + 1, ![r].fstarted = @ + 1]
  /\ pc' = [pc EXCEPT ![r] = "subj_locate"]
  /\ UNCHANGED <<globals, served, h, p, m_in, m_out>>

(***************************************************************************)
(* send_email, continued: body, send, confirmation, except clause          *)
(***************************************************************************)
\* lines 167-171
BodyLocate(r) ==
  /\ pc[r] = "body_locate"
  /\ Locate(r, BodySelectors, field_timeout, "Message body", "body_click")
  /\ UNCHANGED <<globals, served, h, p, m_in, m_out>>

\* line 172
BodyClick(r) ==
  /\ pc[r] = "body_click"
  /\ Interact(r, <<"click", "Message body", "field">>, "body_fill", TRUE)
  /\ UNCHANGED <<globals, served, h, p, m_in, m_out>>

\* line 173
BodyFill(r) ==
  /\ pc[r] = "body_fill"
  /\ Interact(r, <<"fill", "Message body", h[r].email_data["body"].s>>,
              "send_locate", FALSE)
  /\ UNCHANGED <<globals, served, h, p, m_in, m_out>>

\* lines 176-181
SendLocate(r) ==
  /\ pc[r] = "send_locate"
  /\ Locate(r, SendSelectors, field_timeout, "Send button", "send_click")
  /\ UNCHANGED <<globals, served, h, p, m_in, m_out>>

\* line 182
SendClick(r) ==
  /\ pc[r] = "send_click"
  /\ \E ok \in BOOLEAN :
       IF ok
       THEN /\ s' = [s EXCEPT ![r].trace = Append(@, <<"click", "Send button", "button">>),
                              ![r].field = None, ![r].sendClicks = @ + 1]
            /\ pc' = [pc EXCEPT ![r] = "confirm_wait"]
       ELSE AttemptFails(r, At(r, "Send button",
                               Exc("Error", <<"page error in click">>, <<>>)))
  /\ UNCHANGED <<globals, served, h, p, m_in, m_out>>

\* lines 185-187: wait for span.bAq; on success send_email returns True and
\* _send_email_async goes on to browser.close()
ConfirmWait(r) ==
  /\ pc[r] = "confirm_wait"
  /\ \E marker_seen \in BOOLEAN :
       IF ConfirmResult(marker_seen) = "return_true"
       THEN /\ s' = [s EXCEPT ![r].trace =
                                 IF marker_seen THEN Append(@, <<"wait", "span.bAq">>)
                                 ELSE @,
                              ![r].confirmed = marker_seen,
                              ![r].result = "true"]
            /\ pc' = [pc EXCEPT ![r] = "close"]
       ELSE /\ s' = [s EXCEPT ![r].trace =
                                 IF marker_seen THEN Append(@, <<"wait", "span.bAq">>)
                                 ELSE @,
                              ![r].e = At(r, "span.bAq",
                                          Exc("TimeoutError", <<"span.bAq not visible">>, <<>>)),
                              ![r].fails = @ + 1,
                              ![r].field = None]
            /\ pc' = [pc EXCEPT ![r] = ExceptClause(s[r].attempt)]
  /\ UNCHANGED <<globals, served, h, p, m_in, m_out>>

\* lines 18-27: makedirs and page.screenshot run inside try; the except
\* clause logs and returns None.  ok says whether they went through.
save_screenshot_raises(ok) ==
  IF ok THEN [path |-> S("screens/send_error_attempt.png"), exc |-> None]
  ELSE [path |-> None,
        exc |-> Exc("Error", <<"screenshot failed">>, <<>>)]

save_screenshot(ok) ==
  IF ok THEN [path |-> S("screens/send_error_attempt.png"), exc |-> None]
  ELSE [path |-> None, exc |-> None]

\* lines 190-195: save_screenshot (lines 18-27), then raise; the exception
\* leaves send_email into the async with block of _send_email_async
Screenshot(r) ==
  /\ pc[r] = "screenshot"
  /\ \E ok \in BOOLEAN :
       LET shot == save_screenshot(ok)
       IN  /\ s' = [s EXCEPT ![r].shots = @ + 1,
                              ![r].shotAttempt = s[r].attempt,
                              ![r].shotPath = shot.path,
                              ![r].result = "raised"]
           /\ RaiseInPipeline(r, IF shot.exc # None THEN shot.exc ELSE s[r].e)
  /\ UNCHANGED <<globals, served, h, m_in, m_out>>

\* lines 116-118: the next iteration of the for loop starts at the top of the
\* try block, the lookup of the compose button; login (line 178 of
\* unified_api.py) is outside the loop
RetryFrom_navigation == "goto"

RetryFrom == "compose_locate"

\* lines 196-198: asyncio.sleep(2), then the next attempt from line 118
Backoff(r) ==
  /\ pc[r] = "backoff"
  /\ s' = [s EXCEPT ![r].attempt = @ + 1, ![r].started = @ + 1,
                    ![r].e = None, ![r].trace = <<>>,
                    ![r].kind = 0, ![r].idx = 0,
                    ![r].ftry = 0, ![r].fstarted = 0, ![r].ffails = 0,
                    ![r].fresult = "none"]
  /\ pc' = [pc EXCEPT ![r] = RetryFrom]
  /\ UNCHANGED <<globals, served, h, p, m_in, m_out>>

(***************************************************************************)
(* The system                                                              *)
(***************************************************************************)
Next ==
  \E r \in Slots :
    \/ GmailSend(r)
    \/ PlaywrightStart(r)
    \/ LaunchContext(r)
    \/ NewPage(r)
    \/ LoginGoto(r)
    \/ LoginWaitCompose(r)
    \/ LoginWaitMain(r)
    \/ ComposeLocate(r)
    \/ ComposeClick(r)
    \/ DialogWait(r)
    \/ Pause(r)
    \/ RecipientLocate(r)
    \/ RecipientClick(r)
    \/ RecipientFill(r)
    \/ RecipientEnter(r)
    \/ SubjectLocate(r)
    \/ SubjectClick(r)
    \/ SubjectClear(r)
    \/ SubjectFill(r)
    \/ SubjectSleep(r)
    \/ BodyLocate(r)
    \/ BodyClick(r)
    \/ BodyFill(r)
    \/ SendLocate(r)
    \/ SendClick(r)
    \/ ConfirmWait(r)
    \/ Screenshot(r)
    \/ Backoff(r)
    \/ BrowserClose(r)
    \/ ContextExit(r)

Spec == Init /\ [][Next]_vars


(***************************************************************************)
(* The same system with the event loop's scheduling: every awaited call of *)
(* a request in progress is a Playwright call, which returns or raises     *)
(* within its timeout, or an asyncio.sleep, so the coroutine's next step   *)
(* is eventually taken.  The arrival of requests is not forced.            *)
(***************************************************************************)
PipelineStep(r) ==
  \/ PlaywrightStart(r)
  \/ LaunchContext(r)
  \/ NewPage(r)
  \/ LoginGoto(r)
  \/ LoginWaitCompose(r)
  \/ LoginWaitMain(r)
  \/ ComposeLocate(r)
  \/ ComposeClick(r)
  \/ DialogWait(r)
  \/ Pause(r)
  \/ RecipientLocate(r)
  \/ RecipientClick(r)
  \/ RecipientFill(r)
  \/ RecipientEnter(r)
  \/ SubjectLocate(r)
  \/ SubjectClick(r)
  \/ SubjectClear(r)
  \/ SubjectFill(r)
  \/ SubjectSleep(r)
  \/ BodyLocate(r)
  \/ BodyClick(r)
  \/ BodyFill(r)
  \/ SendLocate(r)
  \/ SendClick(r)
  \/ ConfirmWait(r)
  \/ Screenshot(r)
  \/ Backoff(r)
  \/ BrowserClose(r)
  \/ ContextExit(r)

SpecLive == Spec /\ \A r \in Slots : WF_vars(PipelineStep(r))


(***************************************************************************)
(* Two clients of /gmail/send on the one event loop, each followed from    *)
(* its request through login to the compose dialog of its first attempt    *)
(***************************************************************************)
InitConc ==
  /\ InitProgram("ok")
  /\ clients = Slots
  /\ m_in = None
  /\ m_out = None

NextConc ==
  \E r \in Slots :
    \/ GmailSend(r)
    \/ PlaywrightStart(r)
    \/ LaunchContext(r)
    \/ NewPage(r)
    \/ LoginGoto(r)
    \/ LoginWaitCompose(r)
    \/ LoginWaitMain(r)
    \/ ComposeLocate(r)
    \/ ComposeClick(r)
    \/ DialogWait(r)
    \/ ContextExit(r)

SpecConc == InitConc /\ [][NextConc]_vars


(***************************************************************************)
(* The recipient merge of gmail_send (lines 254-260) taken alone, over     *)
(* MergeInputs                                                             *)
(***************************************************************************)
InitMerge ==
  /\ InitProgram("ok")
  /\ clients = {}
  /\ m_in \in MergeInputs
  /\ m_out = None

ApplyMerge ==
  /\ m_in # None
  /\ m_out = None
  /\ m_out' = [kind |-> "dict", value |-> MergeRecipients(m_in.instructions, m_in.request)]
  /\ UNCHANGED <<globals, served, pc, h, p, s, m_in>>

NextMerge == ApplyMerge

SpecMerge == InitMerge /\ [][NextMerge]_vars


(***************************************************************************)
(* search_documents, the PDF search handler (unified_api.py lines 348-378; *)
(* pdf/retriever/app.py lines 169-199 has the same body), taken alone.     *)
(* The handler has no await: one request is one step.                      *)
(***************************************************************************)
\* chunks the vector store returns in the model; the code asks for k=5
MaxChunks == 2

\* line 360: k of similarity_search
search_k == 5

Questions == {"", "q1", "q2"}

RECURSIVE ChunkLists(_)
ChunkLists(n) ==
  IF n = 0 THEN {<<>>}
  ELSE ChunkLists(n - 1)
       \cup {Append(c, x) : c \in {d \in ChunkLists(n - 1) : Len(d) = n - 1},
                            x \in {"c1", "c2"}}

\* what qdrant.similarity_search does when called: it raises, or returns at
\* most k chunks
QdrantOutcomes ==
  {[raises |-> TRUE, chunks |-> <<>>]}
  \cup {[raises |-> FALSE, chunks |-> c] :
          c \in {d \in ChunkLists(MaxChunks) : Len(d) <= search_k}}

\* what token(question, model, context) does when called
TokenOutcomes ==
  {[raises |-> TRUE, text |-> ""], [raises |-> FALSE, text |-> "answer"],
   [raises |-> FALSE, text |-> ""]}

SearchInputs ==
  {[question |-> q, qdrant |-> v, token |-> l] :
     q \in Questions, v \in QdrantOutcomes, l \in TokenOutcomes}

\* lines 350-375, the try block: what it returns or raises, and the calls
\* it has made by then
SearchTry(question, qdrant, token) ==
  IF question = ""
  THEN [exc |-> Exc("HTTPException", <<"400: Question is required">>, <<>>),
        body |-> None, vectorQueries |-> 0, llmCalls |-> 0]
  ELSE IF qdrant.raises
  THEN [exc |-> Exc("Exception", <<"vector store error">>, <<>>),
        body |-> None, vectorQueries |-> 1, llmCalls |-> 0]
  ELSE IF token.raises
  THEN [exc |-> Exc("Exception", <<"llm error">>, <<>>),
        body |-> None, vectorQueries |-> 1, llmCalls |-> 1]
  ELSE [exc |-> None,
        body |-> [response |-> token.text, context |-> qdrant.chunks,
                  chunks_found |-> Len(qdrant.chunks)],
        vectorQueries |-> 1, llmCalls |-> 1]

\* lines 376-378: except Exception catches whatever the try block raised,
\* the HTTPException of line 354 included, and raises HTTPException(500)
search_documents(question, qdrant, token) ==
  LET t == SearchTry(question, qdrant, token)
  IN  [status |-> IF t.exc # None THEN 500 ELSE 200,
       detail |-> IF t.exc # None THEN <<"Search error: ">> \o t.exc.msg ELSE <<>>,
       body |-> t.body,
       vectorQueries |-> t.vectorQueries,
       llmCalls |-> t.llmCalls]

InitSearch ==
  /\ InitProgram("ok")
  /\ clients = {}
  /\ m_in \in SearchInputs
  /\ m_out = None

ApplySearch ==
  /\ m_in # None
  /\ m_out = None
  /\ m_out' = search_documents(m_in.question, m_in.qdrant, m_in.token)
  /\ UNCHANGED <<globals, served, pc, h, p, s, m_in>>

NextSearch == ApplySearch

SpecSearch == InitSearch /\ [][NextSearch]_vars


(***************************************************************************)
(* wait_for_element (lines 50-74) taken alone, over every call of it in    *)
(* send_email and fill_field_with_retry and every behaviour of the page    *)
(***************************************************************************)
LocateCalls ==
  {[selector |-> ComposeSelector, timeout |-> compose_timeout,
    description |-> "compose button"],
   [selector |-> DialogSelector, timeout |-> dialog_timeout,
    description |-> "compose dialog"],
   [selector |-> FillSelectors("subject"), timeout |-> field_timeout,
    description |-> FillDescription("subject")],
   [selector |-> BodySelectors, timeout |-> field_timeout,
    description |-> "Message body"],
   [selector |-> SendSelectors, timeout |-> field_timeout,
    description |-> "Send button"]}
  \cup {[selector |-> RecipientSelectors(k), timeout |-> field_timeout,
          description |-> RecipientDescription(k)] : k \in Range(RecipientKinds)}

LocateInputs ==
  UNION {{[selector |-> c.selector, timeout |-> c.timeout,
           description |-> c.description, visible |-> v, dialog |-> d] :
            v \in SUBSET Range(Selectors(c.selector)), d \in DialogStates} :
         c \in LocateCalls}

InitLocate ==
  /\ InitProgram("ok")
  /\ clients = {}
  /\ m_in \in LocateInputs
  /\ m_out = None

ApplyLocate ==
  /\ m_in # None
  /\ m_out = None
  /\ m_out' = WaitForElement(m_in.selector, m_in.timeout, m_in.description,
                             m_in.visible, m_in.dialog)
  /\ UNCHANGED <<globals, served, pc, h, p, s, m_in>>

NextLocate == ApplyLocate

SpecLocate == InitLocate /\ [][NextLocate]_vars


(***************************************************************************)
(* Properties                                                              *)
(***************************************************************************)
\* "present and non-empty", said without the model's Truthy
NonEmpty(v) ==
  \/ v.kind = "list" /\ v.items # <<>>
  \/ v.kind = "str" /\ v.s # ""

\* the merged draft of slot r exists and its to is missing or empty
EmptyTo(r) ==
  /\ h[r].instructions # None
  /\ \/ "to" \notin DOMAIN h[r].instructions
     \/ ~NonEmpty(h[r].instructions["to"])

Unavailable == gmail_agent = None \/ gmail_env = None

\* C1: a request whose merged draft has an empty to is rejected before the
\* pipeline: _send_email_async is not called, no driver or browser session
\* is started, no send attempt is made, and the request is over at once
C1_EmptyToNeverReachesPipeline ==
  \A r \in Slots :
    EmptyTo(r) =>
      /\ pc[r] = "done"
      /\ ~h[r].response.success
      /\ h[r].pipelineCalls = 0
      /\ p[r].pw = "none"
      /\ p[r].browser = "none"
      /\ p[r].logins = 0
      /\ s[r].started = 0

C1_Witness ==
  \E r \in Slots :
    /\ EmptyTo(r)
    /\ h[r].email_data # None
    /\ h[r].translatorCalls = 1
    /\ pc[r] = "done"
    /\ h[r].response.detail = <<"Gmail send failed: ">> \o NoRecipientError.msg

ConfirmedAfterSendClick(r) ==
  LET n == Len(s[r].trace)
  IN  /\ n >= 2
      /\ s[r].trace[n - 1] = <<"click", "Send button", "button">>
      /\ s[r].trace[n] = <<"wait", "span.bAq">>
      /\ s[r].sendClicks >= 1

\* C3: success=true is answered only after send_email returned True, and
\* send_email returns True only with the confirmation marker seen right
\* after a click on the send button; it never returns without one
C3_SuccessOnlyWhenConfirmed ==
  \A r \in Slots :
    /\ h[r].response.success =>
         (s[r].result = "true" /\ p[r].pending = None /\ pc[r] = "done")
    /\ s[r].result = "true" => (s[r].confirmed /\ ConfirmedAfterSendClick(r))
    /\ s[r].result = "raised" => ~h[r].response.success

C3_Witness ==
  \E r \in Slots :
    /\ h[r].response.success
    /\ h[r].response.status = 200
    /\ s[r].confirmed
    /\ s[r].fails = 1

\* with the agent or the environment missing after start-up, a request is
\* answered 503 without calling the translator or the pipeline
C4_AnswersUnavailable ==
  Unavailable =>
    \A r \in Slots :
      /\ pc[r] \in {"idle", "done"}
      /\ pc[r] = "done" =>
           /\ h[r].response.status = 503
           /\ h[r].translatorCalls = 0
           /\ h[r].pipelineCalls = 0
           /\ p[r].pw = "none"
           /\ s[r].started = 0

\* C4: the above holds in every reachable state, and every step leaves the
\* three globals as start-up set them, so it holds for every request of any
\* sequence until the process restarts
C4_UnavailableUntilRestart ==
  /\ []C4_AnswersUnavailable
  /\ [][/\ gmail_agent' = gmail_agent
        /\ gmail_env' = gmail_env
        /\ gmail_init_error' = gmail_init_error]_vars

C4_Witness ==
  \E r \in Slots :
    /\ gmail_agent = None
    /\ gmail_env # None
    /\ served = MaxRequests
    /\ pc[r] = "done"
    /\ h[r].response.status = 503

\* C5: for to, cc and bcc alike the merged value is the caller's list when
\* that list is present and non-empty and the translation's value (or its
\* absence) otherwise; subject and body are those of the translation
C5_MergePrecedence ==
  m_out # None =>
    LET out == m_out.value
        instructions == m_in.instructions
        request == m_in.request
    IN  /\ \A k \in {"to", "cc", "bcc"} :
             IF NonEmpty(request[k])
             THEN k \in DOMAIN out /\ out[k] = request[k]
             ELSE /\ k \in DOMAIN out <=> k \in DOMAIN instructions
                  /\ k \in DOMAIN instructions => out[k] = instructions[k]
        /\ out["subject"] = instructions["subject"]
        /\ out["body"] = instructions["body"]
        /\ DOMAIN out \subseteq Keys

C5_Witness ==
  /\ m_out # None
  /\ Get(m_in.instructions, "to") = L(<<"a@x">>)
  /\ Get(m_in.instructions, "cc") = L(<<>>)
  /\ m_in.request.to = L(<<"b@x">>)
  /\ m_in.request.cc = None
  /\ Get(m_out.value, "to") = L(<<"b@x">>)
  /\ Get(m_out.value, "cc") = L(<<>>)

\* C6: an action that fails k < 3 times and then succeeds makes its retry
\* loop return success after exactly k + 1 attempts: a loop that returned
\* made one attempt more than it saw failures, a loop gives up only after
\* 3 failures, and no attempt follows the success
C6_RetryCount ==
  \A r \in Slots :
    /\ s[r].result = "true" =>
         /\ s[r].fails < 3
         /\ s[r].started = s[r].fails + 1
         /\ pc[r] \in {"close", "aexit", "done"}
    /\ s[r].result = "raised" => s[r].fails = 3
    /\ s[r].fresult = "true" =>
         /\ s[r].ffails < 3
         /\ s[r].fstarted = s[r].ffails + 1
         /\ pc[r] \notin {"subj_locate", "subj_click", "subj_clear", "subj_fill",
                          "subj_sleep"}
    /\ s[r].fresult = "raised" => s[r].ffails = 3
    /\ s[r].started <= 3
    /\ s[r].fstarted <= 3

C6_Witness ==
  \E r \in Slots :
    /\ s[r].result = "true"
    /\ s[r].fails = 2
    /\ s[r].started = 3
    /\ s[r].fresult = "true"
    /\ s[r].ffails = 2
    /\ s[r].fstarted = 3

\* C7: save_screenshot is called at most once per send_email, and only in
\* the except clause of the third failed attempt; when send_email raises,
\* all three attempts failed, the snapshot was taken once, and the exception
\* that leaves is the one the third attempt raised, unwrapped
C7_Exhaustion ==
  \A r \in Slots :
    /\ s[r].shots <= 1
    /\ s[r].shots = 1 => (s[r].fails = 3 /\ s[r].shotAttempt = 2)
    /\ pc[r] = "backoff" => s[r].shots = 0
    /\ s[r].result = "raised" =>
         /\ s[r].fails = 3
         /\ s[r].shots = 1
         /\ p[r].pending = s[r].e
         /\ p[r].pending.where[1] = 2
         /\ p[r].pending.type \in {"TimeoutError", "Error"}

C7_Witness ==
  \E r \in Slots :
    /\ s[r].result = "raised"
    /\ s[r].shots = 1
    /\ s[r].shotPath # None
    /\ s[r].fails = 3
    /\ p[r].pending.where = <<2, "span.bAq">>

\* the addresses of one recipient field of a draft, in list order
AddressesOf(email_data, k) ==
  IF k \notin DOMAIN email_data THEN <<>>
  ELSE IF email_data[k].kind = "list" THEN email_data[k].items
  ELSE IF email_data[k].kind = "str" /\ email_data[k].s # "" THEN <<email_data[k].s>>
  ELSE <<>>

\* per address: the field is looked up, filled, and committed with Enter
RECURSIVE FillEvents(_, _)
FillEvents(description, addresses) ==
  IF addresses = <<>> THEN <<>>
  ELSE << <<"locate", description>>, <<"fill", description, Head(addresses)>>,
          <<"press", "Enter">> >>
       \o FillEvents(description, Tail(addresses))

ExpectedRecipientEvents(email_data) ==
  FillEvents("To field", AddressesOf(email_data, "to"))
  \o FillEvents("Cc field", AddressesOf(email_data, "cc"))
  \o FillEvents("Bcc field", AddressesOf(email_data, "bcc"))

IsRecipientEvent(event) ==
  event[2] \in {"To field", "Cc field", "Bcc field", "Enter"}

IsPrefix(a, b) == Len(a) <= Len(b) /\ SubSeq(b, 1, Len(a)) = a

PastRecipients(r) ==
  pc[r] \in {"subj_locate", "subj_click", "subj_clear", "subj_fill", "subj_sleep",
             "body_locate", "body_click", "body_fill", "send_locate", "send_click",
             "confirm_wait", "close"}

\* C8: within an attempt the recipient interactions are, in this order, for
\* every to address, then every cc address, then every bcc address, each in
\* list order: look the field up, fill the address, press Enter; and an
\* attempt that is past its recipients has done all of them
C8_RecipientOrder ==
  \A r \in Slots :
    h[r].email_data # None =>
      LET done == SelectSeq(s[r].trace, IsRecipientEvent)
          expected == ExpectedRecipientEvents(h[r].email_data)
      IN  /\ IsPrefix(done, expected)
          /\ PastRecipients(r) => done = expected

C8_Witness ==
  \E r \in Slots :
    /\ pc[r] = "subj_locate"
    /\ h[r].email_data["to"] = L(<<"b@x">>)
    /\ h[r].email_data["cc"] = L(<<"e1@x", "e2@x">>)
    /\ h[r].email_data["bcc"] = L(<<"f@x">>)
    /\ Len(SelectSeq(s[r].trace, IsRecipientEvent)) = 12

\* C9: a request that ends with an exception out of the pipeline is
\* answered 500 with the exception's message in the detail; a request that
\* ends without success is answered 503 or 500, 503 only when the service is
\* unavailable
C9_FailureEnvelope ==
  \A r \in Slots :
    pc[r] = "done" =>
      /\ p[r].pending # None =>
           /\ h[r].response.status = 500
           /\ h[r].response.detail = <<"Gmail send failed: ">> \o p[r].pending.msg
      /\ ~h[r].response.success => h[r].response.status \in {500, 503}
      /\ h[r].response.status = 503 <=> Unavailable
      /\ h[r].response.success <=> h[r].response.status = 200

C9_Witness ==
  \E r \in Slots :
    /\ pc[r] = "done"
    /\ s[r].result = "raised"
    /\ h[r].response.status = 500
    /\ h[r].response.detail = <<"Gmail send failed: ", "Could not find ", "Send button">>

\* C10: when control is back in gmail_send after a call of the pipeline, no
\* browser context is open and no driver is running, whether the pipeline
\* returned or raised
C10_SessionClosed ==
  \A r \in Slots :
    (pc[r] = "done" /\ h[r].pipelineCalls = 1) =>
      /\ p[r].browser # "open"
      /\ p[r].pw # "running"

C10_Witness ==
  \E r \in Slots :
    /\ pc[r] = "done"
    /\ p[r].pending # None
    /\ s[r].result = "raised"
    /\ p[r].browser = "closed"
    /\ ~p[r].closeCalled

\* everything one attempt does to the page when nothing fails, in the order
\* of lines 120-185
HappyTrace(email_data) ==
  << <<"locate", "compose button">>, <<"click", "compose button", "button">>,
     <<"locate", "compose dialog">> >>
  \o ExpectedRecipientEvents(email_data)
  \o << <<"locate", "Subject field">>,
        <<"fill", "Subject field", email_data["subject"].s>>,
        <<"locate", "Message body">>,
        <<"fill", "Message body", email_data["body"].s>>,
        <<"locate", "Send button">>, <<"click", "Send button", "button">>,
        <<"wait", "span.bAq">> >>

\* the first attempt of slot r has gone through every interaction, the
\* confirmation marker included, without a failure of the page
AllSucceeded(r) ==
  /\ h[r].email_data # None
  /\ s[r].attempt = 0
  /\ s[r].ffails = 0
  /\ s[r].trace = HappyTrace(h[r].email_data)

\* C11: when the draft has a recipient and every interaction of the page
\* succeeds, send_email returns true from its first attempt: one attempt
\* started, no failure, no snapshot, no backoff, no second try of the
\* subject, and the pipeline goes on to close the browser
C11_HappyPath ==
  \A r \in Slots :
    AllSucceeded(r) =>
      /\ s[r].result = "true"
      /\ s[r].confirmed
      /\ s[r].started = 1
      /\ s[r].fails = 0
      /\ s[r].shots = 0
      /\ s[r].fstarted = 1
      /\ pc[r] \in {"close", "aexit", "done"}
      /\ NonEmpty(Get(h[r].email_data, "to"))

C11_Witness ==
  \E r \in Slots :
    /\ AllSucceeded(r)
    /\ s[r].result = "true"
    /\ pc[r] = "done"
    /\ h[r].response.success
    /\ Len(s[r].trace) = 22

\* C12: a PDF search whose question is empty is answered 400 with no query
\* of the vector store and no call of the LLM, and 500 is answered only when
\* the vector store or the LLM raised
C12_EmptyQuestionIs400 ==
  m_out # None =>
    /\ m_in.question = "" =>
         /\ m_out.status = 400
         /\ m_out.vectorQueries = 0
         /\ m_out.llmCalls = 0
    /\ m_out.status = 500 => (m_in.qdrant.raises \/ m_in.token.raises)

\* slot r is suspended in an awaited call on its page
AtPageInteraction(r) ==
  pc[r] \in {"goto", "wait_cm", "wait_main", "compose_locate", "compose_click",
             "dialog_wait"}

\* C13: requests to /gmail/send are not mutually excluded: while one request
\* is inside the pipeline, a request of another client can still enter it,
\* so that two requests are inside the pipeline at once
C13_NoMutualExclusion ==
  \A r \in Slots :
    (/\ r \in clients
     /\ pc[r] \in {"idle", "done"}
     /\ served < MaxRequests
     /\ ~Unavailable
     /\ \E q \in Slots \ {r} : InPipeline(q))
    => ENABLED (GmailSend(r) /\ pc'[r] = "pw_start")

C13_Witness ==
  /\ AtPageInteraction(1)
  /\ AtPageInteraction(2)
  /\ p[1].browser = "open"
  /\ p[2].browser = "open"
  /\ pc[1] = "compose_click"
  /\ pc[2] = "wait_main"

\* the stages of an attempt: its trace with the repeated lookups of the
\* subject field, which the retries inside fill_field_with_retry add, taken
\* once
RECURSIVE Stages(_)
Stages(trace) ==
  IF Len(trace) <= 1 THEN trace
  ELSE IF trace[1] = <<"locate", "Subject field">> /\ trace[2] = trace[1]
       THEN Stages(Tail(trace))
       ELSE <<trace[1]>> \o Stages(Tail(trace))

IsFillEvent(event) == event[1] = "fill"

SendClicked(trace) ==
  \E i \in 1..Len(trace) : trace[i] = <<"click", "Send button", "button">>

\* C14: what an attempt has done is always an initial part of the fixed
\* sequence compose click, dialog wait, recipients, subject, body, send
\* click, confirmation wait; the send button is clicked only in an attempt
\* that has itself filled every recipient, the subject and the body; and
\* send_email returns true only after the whole sequence
C14_StageOrder ==
  \A r \in Slots :
    h[r].email_data # None =>
      LET done == Stages(s[r].trace)
          full == HappyTrace(h[r].email_data)
      IN  /\ IsPrefix(done, full)
          /\ SendClicked(s[r].trace) =>
                SelectSeq(s[r].trace, IsFillEvent) = SelectSeq(full, IsFillEvent)
          /\ pc[r] = "confirm_wait" => done = SubSeq(full, 1, Len(full) - 1)
          /\ s[r].result = "true" => done = full

C14_Witness ==
  \E r \in Slots :
    /\ pc[r] = "confirm_wait"
    /\ s[r].attempt = 1
    /\ s[r].ffails = 2
    /\ Len(s[r].trace) = 23
    /\ Len(Stages(s[r].trace)) = 21
    /\ SendClicked(s[r].trace)

LoginSteps == {"goto", "wait_cm", "wait_main"}

\* the exception that left the pipeline of slot r was raised inside login
LoginFailed(r) ==
  /\ p[r].pending # None
  /\ p[r].pending.msg \in {<<"goto failed">>, <<"div[gh='cm'] not visible">>,
                            <<"div[role='main'] not visible">>}

C15_LoginOnce ==
  \A r \in Slots :
    /\ p[r].logins <= 1
    /\ s[r].started >= 1 => (p[r].logins = 1 /\ p[r].page)
    /\ pc[r] \in LoginSteps => (p[r].logins = 1 /\ s[r].started = 0)
    /\ LoginFailed(r) =>
         (s[r].started = 0 /\ s[r].trace = <<>> /\ s[r].sendClicks = 0)
    /\ (s[r].attempt >= 1 /\ pc[r] = "send_click" /\ h[r].email_data # None) =>
         SelectSeq(s[r].trace, IsFillEvent)
           = SelectSeq(HappyTrace(h[r].email_data), IsFillEvent)

C15_RetryStep ==
  \A r \in Slots :
    /\ pc'[r] \in LoginSteps => s[r].started = 0
    /\ (pc[r] = "backoff" /\ pc'[r] # "backoff") =>
         /\ pc'[r] = "compose_locate"
         /\ p'[r] = p[r]
         /\ s'[r].trace = <<>>
         /\ s'[r].started = s[r].started + 1

\* C15: login runs once per request and is never retried; when login fails
\* no send attempt is made; after a failed send attempt the next attempt
\* starts again at the lookup of the compose button with nothing of the
\* previous attempt kept, fills every field again before it clicks send, and
\* does not navigate or log in again
C15_LoginOnceRetryFromCompose == []C15_LoginOnce /\ [][C15_RetryStep]_vars

C15_Witness ==
  \E r \in Slots :
    /\ s[r].attempt = 2
    /\ pc[r] = "send_click"
    /\ p[r].logins = 1
    /\ s[r].fails = 2
    /\ s[r].sendClicks = 2

C15_LoginFailureWitness ==
  \E r \in Slots :
    /\ pc[r] = "done"
    /\ LoginFailed(r)
    /\ h[r].response.status = 500

C16_Bounded ==
  \A r \in Slots :
    /\ s[r].started <= 3
    /\ s[r].fails <= 3
    /\ s[r].started >= 1 => s[r].attempt = s[r].started - 1
    /\ pc[r] = "backoff" => (s[r].fails < 3 /\ s[r].result = "none")
    /\ pc[r] = "screenshot" => (s[r].fails = 3 /\ s[r].started = 3)
    /\ s[r].result # "none" => pc[r] \in {"close", "aexit", "done"}
    /\ s[r].result = "raised" => (s[r].fails = 3 /\ p[r].pending # None)
    /\ s[r].result = "true" => s[r].fails < 3

C16_NoStepAfterResult ==
  \A r \in Slots :
    (s[r].result # "none" /\ s'[r].result # "none") => s'[r] = s[r]

\* C16: send_email always ends, returning true or raising, after at most
\* three attempts: a fourth attempt is never started, the backoff wait comes
\* only after a failed attempt that is not the third, and once send_email
\* has returned or raised it does nothing more
C16_Terminates ==
  /\ []C16_Bounded
  /\ [][C16_NoStepAfterResult]_vars
  /\ \A r \in Slots : (s[r].started >= 1) ~> (s[r].result # "none")

C16_Witness ==
  \E r \in Slots :
    /\ s[r].result = "raised"
    /\ s[r].started = 3
    /\ s[r].fails = 3
    /\ pc[r] = "done"

\* some explicit candidate of the call in m_in becomes visible
AnyVisible ==
  \E i \in 1..Len(Selectors(m_in.selector)) :
    Selectors(m_in.selector)[i] \in m_in.visible

\* C17: wait_for_element waits on the candidates in list order, each for
\* timeout // len(selectors), so that the waits add up to no more than the
\* timeout; it returns the first candidate that becomes visible and waits on
\* none after it; when no candidate becomes visible and the fallback finds
\* nothing it raises the error "Could not find <description>"
C17_CandidateOrder ==
  m_out # None =>
    LET sels == Selectors(m_in.selector)
        n == Len(sels)
    IN  /\ n * m_out.budget <= m_in.timeout
        /\ n * (m_out.budget + 1) > m_in.timeout
        /\ m_out.tried \in 1..n
        /\ m_out.tried * m_out.budget <= m_in.timeout
        /\ AnyVisible =>
             /\ m_out.found
             /\ m_out.element = [via |-> "selector", sel |-> sels[m_out.tried]]
             /\ sels[m_out.tried] \in m_in.visible
             /\ \A j \in 1..(m_out.tried - 1) : sels[j] \notin m_in.visible
        /\ ~AnyVisible => m_out.tried = n
        /\ (~AnyVisible /\ m_in.dialog # "textbox") =>
             /\ ~m_out.found
             /\ m_out.exc.type = "TimeoutError"
             /\ m_out.exc.msg = <<"Could not find ", m_in.description>>

C17_Witness ==
  /\ m_out # None
  /\ m_in.selector = SendSelectors
  /\ m_in.visible = {SendSelectors.items[2], SendSelectors.items[4]}
  /\ m_out.found
  /\ m_out.tried = 2
  /\ m_out.budget = 1250

\* C18: the scan of the compose dialog runs only after every explicit
\* candidate has failed; when it runs and the dialog holds a text-editable
\* element, that element is returned instead of an error, whatever was
\* being looked for, the compose button and the send button included; when
\* there is no dialog or it holds no such element, the lookup fails
C18_DialogFallback ==
  m_out # None =>
    /\ m_out.scanned <=> ~AnyVisible
    /\ (m_out.found /\ m_out.element.via = "dialog") => ~AnyVisible
    /\ (~AnyVisible /\ m_in.dialog = "textbox") =>
         /\ m_out.found
         /\ m_out.element = [via |-> "dialog", sel |-> DialogTextboxes]
         /\ m_out.exc = None
    /\ (~AnyVisible /\ m_in.dialog \in {"none", "empty"}) =>
         /\ ~m_out.found
         /\ m_out.element = None
         /\ m_out.exc # None

C18_Witness ==
  /\ m_out # None
  /\ m_in.description = "Send button"
  /\ m_in.visible = {}
  /\ m_in.dialog = "textbox"
  /\ m_out.found
  /\ m_out.element.via = "dialog"

IsSendClick(event) == event = <<"click", "Send button", "button">>

\* C19 as first stated: one call of send_email clicks the send button at
\* most once over all its attempts
C19_Original ==
  \A r \in Slots : s[r].sendClicks <= 1

\* C19: one call of send_email clicks the send button at most once in each
\* attempt and so at most max_retries times in all; a click counted in an
\* earlier attempt does not stop a later attempt from clicking again
C19_AtMostOncePerAttempt ==
  \A r \in Slots :
    /\ Len(SelectSeq(s[r].trace, IsSendClick)) <= 1
    /\ s[r].sendClicks <= s[r].started
    /\ s[r].sendClicks <= max_retries
    /\ s[r].sendClicks >= 2 => s[r].fails >= s[r].sendClicks - 1

C19_Witness ==
  \E r \in Slots :
    /\ s[r].sendClicks = 3
    /\ s[r].result = "true"
    /\ s[r].confirmed
    /\ pc[r] = "done"
    /\ h[r].response.success

\* C20: when the snapshot of the third failed attempt cannot be taken,
\* save_screenshot returns no path and raises nothing, and the exception
\* that leaves send_email, and that the caller is told of, is still the one
\* the third attempt raised
C20_SnapshotFailureDoesNotMask ==
  \A r \in Slots :
    (s[r].shots = 1 /\ s[r].shotPath = None) =>
      /\ s[r].result = "raised"
      /\ s[r].e # None
      /\ s[r].e.where[1] = 2
      /\ p[r].pending = s[r].e
      /\ pc[r] = "done" =>
           /\ h[r].response.status = 500
           /\ h[r].response.detail = <<"Gmail send failed: ">> \o s[r].e.msg

C20_Witness ==
  \E r \in Slots :
    /\ s[r].shots = 1
    /\ s[r].shotPath = None
    /\ pc[r] = "done"
    /\ p[r].pending.where = <<2, "Send button">>
    /\ h[r].response.detail = <<"Gmail send failed: ", "Could not find ", "Send button">>

====
